---- MODULE Spec2Model ----
(***************************************************************************)
(* FocusLite: the Pomodoro timer engine (PomodoroTimer in js/router.js)    *)
(* with the part of the Storage module it uses.                            *)
(*                                                                         *)
(* The JavaScript functions are modelled as operators on a record w that   *)
(* holds the module-level state (timerState, config, timerInterval, the    *)
(* browser's timers, localStorage); an action applies one operator, so a   *)
(* handler and everything it calls is one step.                            *)
(***************************************************************************)
EXTENDS Integers, Sequences, FiniteSets, TLC

VARIABLES
    timerState,          \* PomodoroTimer.timerState
    config,              \* PomodoroTimer.config
    timerInterval,       \* state of the interval the handle timerInterval names
    orphanIntervals,     \* live intervals whose handle has been overwritten
    autoSwitchTimeouts,  \* pending setTimeout callbacks, oldest first, by age in seconds
    storage,             \* localStorage entries of the timer
    storageAvailable,    \* whether localStorage.setItem succeeds in this session
    lastOp,              \* observer: the operation of the last step
    tickRun,             \* observer: ticks delivered since the last operation
    scenarioA,           \* observer: progress through Scenario A / B
    scenarioC,           \* observer: progress through Scenario C
    pauseMark,           \* observer: the countdown as it was when pause() took effect
    timeoutModes,        \* observer: for each pending timeout, the mode that completed
    notification,        \* what the browser does with the sound and the Notification
    currentTask,         \* the current-task box of the timer page
    snapshot,            \* the object a caller got from getTimerState()
    taskManager,         \* TaskManager: tasks, currentTaskId, and the ids issued so far
    router,              \* Router: currentPage
    refilled             \* observer: timeRemaining was at totalTime since the last cycle

vars == <<timerState, config, timerInterval, orphanIntervals, autoSwitchTimeouts,
          storage, storageAvailable, lastOp, tickRun, scenarioA, scenarioC,
          pauseMark, timeoutModes, notification, currentTask, snapshot,
          taskManager, router, refilled>>

----
\* Bounds of the model.

\* steps for which a caller keeps the object it got from getTimerState()
SnapshotLife == 1

\* durations (seconds) of the scenario configuration {focusSeconds:5, breakSeconds:2}
ScenarioFocus == 5
ScenarioBreak == 2
\* a second, shorter duration for each mode
ShortTime == 1
\* cyclesCompleted is explored up to this value
MaxCycles == 2
\* largest cycle count found in storage at start-up
MaxStoredCycles == 1
\* the task list is explored up to this length
MaxTasks == 2
\* generateTaskId() is called at most this many times
MaxTaskIds == 3

FocusTimes == {ShortTime, ScenarioFocus}
BreakTimes == {ShortTime, ScenarioBreak}

----
\* Program constants.

\* period of the tick interval, in milliseconds
TickPeriodMs == 1000
\* delay of the automatic mode switch, in milliseconds
AutoSwitchDelayMs == 2000
\* seconds of scheduler time that fit in the auto-switch delay
AutoSwitchDelay == AutoSwitchDelayMs \div TickPeriodMs

DefaultFocusTime == 25 * 60
DefaultBreakTime == 5 * 60

\* the object literal "config" of PomodoroTimer
DefaultConfig ==
    [focusTime |-> DefaultFocusTime, breakTime |-> DefaultBreakTime,
     autoSwitch |-> TRUE, soundEnabled |-> TRUE]

\* the object literal "timerState" of PomodoroTimer
DefaultTimerState ==
    [isRunning |-> FALSE, isPaused |-> FALSE, currentMode |-> "focus",
     timeRemaining |-> DefaultFocusTime, totalTime |-> DefaultFocusTime, cycles |-> 0]

ConfigKeys == {"focusTime", "breakTime", "autoSwitch", "soundEnabled"}

Max(a, b) == IF a >= b THEN a ELSE b

----
\* Storage (localStorage behind Storage.saveData / Storage.loadData).
\* A stored entry is [kind, n]: kind "absent" (no item), "corrupt" (an item
\* JSON.parse rejects), "number" (a JSON number n), "other" (any other JSON
\* value).  A finite integer survives JSON.stringify / JSON.parse unchanged.

AbsentEntry == [kind |-> "absent", n |-> 0]
NumberEntry(n) == [kind |-> "number", n |-> n]

\* Storage.saveData: setItem inside try/catch; a failing write is swallowed
saveData_noCatch(w, key, data) ==
    IF w.storageAvailable THEN [w EXCEPT !.storage[key] = data]
    ELSE [w EXCEPT !.raised = TRUE]

saveData(w, key, data) ==
    IF w.storageAvailable THEN [w EXCEPT !.storage[key] = data] ELSE w

\* Storage.loadData: the default on a missing item or a parse error
loadData(w, key, defaultValue) ==
    IF w.storage[key].kind \in {"absent", "corrupt"} THEN defaultValue
    ELSE w.storage[key]

\* Storage.saveCycles
saveCycles(w, cycles) == saveData(w, "cycles", NumberEntry(cycles))

\* Storage.loadCycles
loadCycles(w) == loadData(w, "cycles", NumberEntry(0))

\* Storage.saveTimerConfig; the stored object is kept in the field "obj"
saveTimerConfig(w, cfg) ==
    IF w.storageAvailable THEN [w EXCEPT !.storage.config = [kind |-> "object", obj |-> cfg]]
    ELSE w

----
\* The browser's timers.

\* clearInterval(timerInterval): idempotent, a stale or null handle is ignored
clearInterval(w) ==
    [w EXCEPT !.timerInterval = IF @ = "active" THEN "cleared" ELSE @]

\* timerInterval = setInterval(...): the handle now names a new live interval;
\* an interval the handle named before keeps running without a handle
setInterval(w) ==
    [w EXCEPT !.orphanIntervals = IF w.timerInterval = "active" THEN @ + 1 ELSE @,
              !.timerInterval = "active"]

\* number of live tick intervals
LiveIntervals(w) == (IF w.timerInterval = "active" THEN 1 ELSE 0) + w.orphanIntervals

----
\* PomodoroTimer.

\* PomodoroTimer.saveCyclesToStorage
saveCyclesToStorage(w) == saveCycles(w, w.timerState.cycles)

\* PomodoroTimer.saveConfigToStorage
saveConfigToStorage(w) == saveTimerConfig(w, w.config)

\* PomodoroTimer.loadCyclesFromStorage
loadCyclesFromStorage_noTypeCheck(w) ==
    [w EXCEPT !.timerState.cycles = loadCycles(w).n]

loadCyclesFromStorage(w) ==
    LET savedCycles == loadCycles(w)
    IN IF savedCycles.kind = "number"
       THEN [w EXCEPT !.timerState.cycles = savedCycles.n]
       ELSE w

startTimer_noGuard(w) ==
    setInterval([w EXCEPT !.timerState.isRunning = TRUE,
                          !.timerState.isPaused = FALSE])

\* PomodoroTimer.startTimer
startTimer(w) ==
    IF w.timerState.isRunning THEN w
    ELSE setInterval([w EXCEPT !.timerState.isRunning = TRUE,
                               !.timerState.isPaused = FALSE])

pauseTimer_keepsInterval(w) ==
    IF ~w.timerState.isRunning \/ w.timerState.isPaused THEN w
    ELSE [w EXCEPT !.timerState.isPaused = TRUE]

\* PomodoroTimer.pauseTimer
pauseTimer_noGuard(w) ==
    clearInterval([w EXCEPT !.timerState.isPaused = TRUE])

pauseTimer(w) ==
    IF ~w.timerState.isRunning \/ w.timerState.isPaused THEN w
    ELSE clearInterval([w EXCEPT !.timerState.isPaused = TRUE])

resumeTimer_restarts(w) ==
    IF ~w.timerState.isPaused THEN w
    ELSE startTimer([w EXCEPT !.timerState.isPaused = FALSE,
                              !.timerState.timeRemaining = w.timerState.totalTime])

\* PomodoroTimer.resumeTimer
resumeTimer(w) ==
    IF ~w.timerState.isPaused THEN w
    ELSE startTimer([w EXCEPT !.timerState.isPaused = FALSE])

resetTimer_keepsPaused(w) ==
    LET w1 == IF w.timerState.isRunning THEN clearInterval(w) ELSE w
    IN [w1 EXCEPT !.timerState.isRunning = FALSE,
                  !.timerState.timeRemaining = w.timerState.totalTime]

resetTimer_cancelsTimeouts(w) ==
    LET w1 == IF w.timerState.isRunning THEN clearInterval(w) ELSE w
    IN [w1 EXCEPT !.timerState.isRunning = FALSE,
                  !.timerState.isPaused = FALSE,
                  !.timerState.timeRemaining = w.timerState.totalTime,
                  !.autoSwitchTimeouts = <<>>]

resetTimer_clearsCycles(w) ==
    LET w1 == IF w.timerState.isRunning THEN clearInterval(w) ELSE w
    IN [w1 EXCEPT !.timerState.isRunning = FALSE,
                  !.timerState.isPaused = FALSE,
                  !.timerState.timeRemaining = w.timerState.totalTime,
                  !.timerState.cycles = 0]

resetTimer_keepsInterval(w) ==
    [w EXCEPT !.timerState.isRunning = FALSE,
              !.timerState.isPaused = FALSE,
              !.timerState.timeRemaining = w.timerState.totalTime]

\* PomodoroTimer.resetTimer
resetTimer(w) ==
    LET w1 == IF w.timerState.isRunning THEN clearInterval(w) ELSE w
    IN [w1 EXCEPT !.timerState.isRunning = FALSE,
                  !.timerState.isPaused = FALSE,
                  !.timerState.timeRemaining = w.timerState.totalTime]

handleTimerComplete_keepsInterval(w) ==
    LET w1 == [w EXCEPT !.timerState.isRunning = FALSE,
                        !.timerState.isPaused = FALSE]
        w2 == IF w1.timerState.currentMode = "focus"
              THEN saveCyclesToStorage([w1 EXCEPT !.timerState.cycles = @ + 1])
              ELSE w1
    IN IF w2.config.autoSwitch
       THEN [w2 EXCEPT !.autoSwitchTimeouts = Append(@, 0)]
       ELSE w2

handleTimerComplete_countsBreak(w) ==
    LET w1 == [clearInterval(w) EXCEPT !.timerState.isRunning = FALSE,
                                       !.timerState.isPaused = FALSE]
        w2 == saveCyclesToStorage([w1 EXCEPT !.timerState.cycles = @ + 1])
    IN IF w2.config.autoSwitch
       THEN [w2 EXCEPT !.autoSwitchTimeouts = Append(@, 0)]
       ELSE w2

\* what the browser may do with the sound and the Notification of a
\* completion: both delivered; audio.play() fails; new Notification(...) or
\* Notification.requestPermission().then throws
NotificationOutcomes == {"delivered", "soundFails", "alertThrows"}

\* PomodoroTimer.playNotification: a failing audio element is caught and logged
playNotification(w) == w

\* PomodoroTimer.showBrowserNotification: nothing catches what the
\* Notification constructor or requestPermission throws
showBrowserNotification(w) ==
    IF w.notification = "alertThrows" THEN [w EXCEPT !.raised = TRUE] ELSE w

\* PomodoroTimer.handleTimerComplete
handleTimerComplete(w) ==
    LET w1 == [clearInterval(w) EXCEPT !.timerState.isRunning = FALSE,
                                       !.timerState.isPaused = FALSE]
        wn == showBrowserNotification(playNotification(w1))
        w2 == IF wn.timerState.currentMode = "focus"
              THEN saveCyclesToStorage([wn EXCEPT !.timerState.cycles = @ + 1])
              ELSE wn
    IN IF wn.raised THEN wn
       ELSE IF w2.config.autoSwitch
       THEN [w2 EXCEPT !.autoSwitchTimeouts = Append(@, 0)]
       ELSE w2

tick_noFloor(w) ==
    IF w.timerState.timeRemaining >= 0
    THEN [w EXCEPT !.timerState.timeRemaining = @ - 1]
    ELSE handleTimerComplete(w)

\* PomodoroTimer.tick
tick(w) ==
    IF w.timerState.timeRemaining > 0
    THEN [w EXCEPT !.timerState.timeRemaining = @ - 1]
    ELSE handleTimerComplete(w)

switchMode_keepsInterval(w, mode) ==
    IF mode = w.timerState.currentMode THEN w
    ELSE LET w1 == IF w.timerState.isRunning
                   THEN [w EXCEPT !.timerState.isRunning = FALSE,
                                  !.timerState.isPaused = FALSE]
                   ELSE w
             total == IF mode = "focus" THEN w.config.focusTime ELSE w.config.breakTime
         IN [w1 EXCEPT !.timerState.currentMode = mode,
                       !.timerState.totalTime = total,
                       !.timerState.timeRemaining = total]

switchMode_keepsTime(w, mode) ==
    IF mode = w.timerState.currentMode THEN w
    ELSE LET w1 == IF w.timerState.isRunning
                   THEN [clearInterval(w) EXCEPT !.timerState.isRunning = FALSE,
                                                 !.timerState.isPaused = FALSE]
                   ELSE w
             total == IF mode = "focus" THEN w.config.focusTime ELSE w.config.breakTime
         IN [w1 EXCEPT !.timerState.currentMode = mode,
                       !.timerState.totalTime = total]

\* PomodoroTimer.switchMode
switchMode(w, mode) ==
    IF mode = w.timerState.currentMode THEN w
    ELSE LET w1 == IF w.timerState.isRunning
                   THEN [clearInterval(w) EXCEPT !.timerState.isRunning = FALSE,
                                                 !.timerState.isPaused = FALSE]
                   ELSE w
             total == IF mode = "focus" THEN w.config.focusTime ELSE w.config.breakTime
         IN [w1 EXCEPT !.timerState.currentMode = mode,
                       !.timerState.totalTime = total,
                       !.timerState.timeRemaining = total]

autoSwitchCallback_noStart(w) ==
    switchMode(w, IF w.timerState.currentMode = "focus" THEN "break" ELSE "focus")

\* the callback handleTimerComplete hands to setTimeout
autoSwitchCallback_noSwitch(w) == startTimer(w)

autoSwitchCallback(w) ==
    startTimer(switchMode(w, IF w.timerState.currentMode = "focus" THEN "break" ELSE "focus"))

\* Object.assign(config, newConfig): newConfig is a function on a subset of the keys
ObjectAssign(target, source) ==
    [k \in ConfigKeys |-> IF k \in DOMAIN source THEN source[k] ELSE target[k]]

updateConfig_onlyTotal(w, newConfig) ==
    LET w1 == saveConfigToStorage([w EXCEPT !.config = ObjectAssign(w.config, newConfig)])
        total == IF w1.timerState.currentMode = "focus"
                 THEN w1.config.focusTime ELSE w1.config.breakTime
    IN IF ~w1.timerState.isRunning
       THEN [w1 EXCEPT !.timerState.totalTime = total]
       ELSE w1

updateConfig_alwaysResets(w, newConfig) ==
    LET w1 == saveConfigToStorage([w EXCEPT !.config = ObjectAssign(w.config, newConfig)])
        total == IF w1.timerState.currentMode = "focus"
                 THEN w1.config.focusTime ELSE w1.config.breakTime
    IN [w1 EXCEPT !.timerState.totalTime = total,
                  !.timerState.timeRemaining = total]

getTimerState_sameObject(w) ==
    [taken |-> TRUE, alias |-> TRUE, val |-> w.timerState, age |-> 0]

\* PomodoroTimer.getTimerState: a new object with the fields of timerState
\* (alias: whether the object returned is timerState itself)
getTimerState(w) ==
    [taken |-> TRUE, alias |-> FALSE, val |-> w.timerState, age |-> 0]

\* PomodoroTimer.updateConfig
updateConfig(w, newConfig) ==
    LET w1 == saveConfigToStorage([w EXCEPT !.config = ObjectAssign(w.config, newConfig)])
        total == IF w1.timerState.currentMode = "focus"
                 THEN w1.config.focusTime ELSE w1.config.breakTime
    IN IF ~w1.timerState.isRunning
       THEN [w1 EXCEPT !.timerState.totalTime = total,
                       !.timerState.timeRemaining = total]
       ELSE w1

\* PomodoroTimer.updateCurrentTaskDisplay (task.text = "" stands for no task)
updateCurrentTaskDisplay(w, task) ==
    IF task.text # ""
    THEN [w EXCEPT !.currentTask = [shown |-> TRUE, text |-> task.text]]
    ELSE [w EXCEPT !.currentTask.shown = FALSE]

handleCurrentTaskChanged_resets(w, event) ==
    resetTimer(updateCurrentTaskDisplay(w, event.detail.task))

\* PomodoroTimer.handleCurrentTaskChanged
handleCurrentTaskChanged(w, event) == updateCurrentTaskDisplay(w, event.detail.task)

\* PomodoroTimer.init: the configuration and the cycle count are read from
\* storage; timerState.timeRemaining / totalTime keep their literal values
init(w) ==
    LET savedConfig == loadData(w, "config", [kind |-> "object", obj |-> DefaultConfig])
        w1 == IF savedConfig.kind = "object"
              THEN [w EXCEPT !.config = ObjectAssign(w.config, savedConfig.obj)]
              ELSE w
    IN loadCyclesFromStorage(w1)

----
\* One second of scheduler time.

RECURSIVE DeliverTicks(_, _)
\* the callbacks of k orphaned intervals run one after the other
DeliverTicks(w, k) == IF k = 0 THEN w ELSE DeliverTicks(tick(w), k - 1)

\* every pending timeout is one second older
AgeTimeouts(w) ==
    [w EXCEPT !.autoSwitchTimeouts = [i \in 1..Len(@) |-> @[i] + 1]]

\* each live interval calls tick() once
secondElapses(w) ==
    LET w0 == AgeTimeouts(w)
        w1 == IF w0.timerInterval = "active" THEN tick(w0) ELSE w0
    IN DeliverTicks(w1, w.orphanIntervals)

----
\* The state machine.

\* the module-level state as one record
World ==
    [timerState |-> timerState, config |-> config, timerInterval |-> timerInterval,
     orphanIntervals |-> orphanIntervals, autoSwitchTimeouts |-> autoSwitchTimeouts,
     storage |-> storage, storageAvailable |-> storageAvailable,
     notification |-> notification, currentTask |-> currentTask,
     taskManager |-> taskManager, router |-> router,
     raised |-> FALSE, dispatched |-> <<>>]

Modes == {"focus", "break"}

Configs ==
    [focusTime : FocusTimes, breakTime : BreakTimes,
     autoSwitch : BOOLEAN, soundEnabled : {TRUE}]

\* what the key focuslite_cycles may hold when the page is loaded
StoredCycleEntries ==
    {AbsentEntry, [kind |-> "corrupt", n |-> 0], [kind |-> "other", n |-> MaxStoredCycles]}
        \cup {NumberEntry(n) : n \in 0..MaxStoredCycles}

\* the current-task box before any task was chosen: hidden and empty
NoTask == [shown |-> FALSE, text |-> ""]

\* no caller holds an object returned by getTimerState()
NoSnapshot == [taken |-> FALSE, alias |-> FALSE, val |-> DefaultTimerState, age |-> 0]

\* nothing is stored under focuslite_tasks
AbsentTasks == [kind |-> "absent", items |-> <<>>]

\* TaskManager once the script is evaluated: no tasks, currentTaskId null
\* (0 stands for null; issued counts the ids generateTaskId has returned)
TaskManagerState == [tasks |-> <<>>, currentTaskId |-> 0, issued |-> 0]

\* Router once the script is evaluated
RouterState == [currentPage |-> "tasks"]

\* the state of the script once it is evaluated, before init() runs
ModuleState(storedCycles, available) ==
    [timerState |-> DefaultTimerState, config |-> DefaultConfig,
     timerInterval |-> "null", orphanIntervals |-> 0, autoSwitchTimeouts |-> <<>>,
     storage |-> [cycles |-> storedCycles, config |-> AbsentEntry, tasks |-> AbsentTasks],
     storageAvailable |-> available,
     notification |-> "delivered", currentTask |-> NoTask,
     taskManager |-> TaskManagerState, router |-> RouterState,
     raised |-> FALSE, dispatched |-> <<>>]

ScenarioAOff == [on |-> FALSE, ticks |-> 0, fired |-> FALSE, base |-> 0]

\* the argument recorded for an operation other than updateConfig
NoPatch == <<>>

\* no pause() has just taken effect
NoMark == [set |-> FALSE, timeRemaining |-> 0, totalTime |-> 0,
           currentMode |-> "focus", cycles |-> 0]

\* The engine after init() and a first updateConfig(c) with a complete
\* configuration c of the bounded set (the literal 25 and 5 minute countdowns
\* are outside the bounds of the model).
InitIn(browser) ==
    \E storedCycles \in StoredCycleEntries, available \in BOOLEAN, c \in Configs :
        LET w == updateConfig(init([ModuleState(storedCycles, available)
                                       EXCEPT !.notification = browser]), c)
        IN /\ timerState = w.timerState
           /\ config = w.config
           /\ timerInterval = w.timerInterval
           /\ orphanIntervals = w.orphanIntervals
           /\ autoSwitchTimeouts = w.autoSwitchTimeouts
           /\ storage = w.storage
           /\ storageAvailable = w.storageAvailable
           /\ lastOp = [op |-> "init", arg |-> "", from |-> "idle", rep |-> FALSE,
                        mid |-> FALSE, patch |-> NoPatch, raised |-> FALSE,
                        dispatched |-> <<>>]
           /\ tickRun = [base |-> w.timerState.timeRemaining, n |-> 0]
           /\ scenarioA = ScenarioAOff
           /\ scenarioC = 0
           /\ pauseMark = NoMark
           /\ timeoutModes = <<>>
           /\ notification = w.notification
           /\ currentTask = w.currentTask
           /\ snapshot = NoSnapshot
           /\ taskManager = w.taskManager
           /\ router = w.router
           /\ refilled = TRUE

\* the engine in a browser that delivers the notifications of a completion
Init == InitIn("delivered")

\* Scenario A starts with start() on an idle Focus countdown of the scenario
\* configuration, with no delayed action pending
FreshA(w) ==
    /\ ~w.timerState.isRunning /\ ~w.timerState.isPaused
    /\ w.timerState.currentMode = "focus"
    /\ w.timerState.timeRemaining = w.timerState.totalTime
    /\ w.timerState.totalTime = ScenarioFocus
    /\ w.config.focusTime = ScenarioFocus
    /\ w.config.breakTime = ScenarioBreak
    /\ w.autoSwitchTimeouts = <<>>

\* Scenario A / B: start(), then ticks only, then (B) the delayed action
NextScenarioA(op) ==
    CASE op = "start" /\ FreshA(World) ->
            [on |-> TRUE, ticks |-> 0, fired |-> FALSE, base |-> timerState.cycles]
      [] op = "second" /\ scenarioA.on /\ ~scenarioA.fired ->
            [scenarioA EXCEPT !.ticks = @ + LiveIntervals(World)]
      [] op = "autoSwitch" /\ scenarioA.on /\ ~scenarioA.fired ->
            [scenarioA EXCEPT !.fired = TRUE]
      [] OTHER -> ScenarioAOff

\* Scenario C starts with start() on an idle, full countdown of at least
\* ScenarioFocus seconds
FreshC(w) ==
    /\ ~w.timerState.isRunning /\ ~w.timerState.isPaused
    /\ w.timerState.timeRemaining = w.timerState.totalTime
    /\ w.timerState.totalTime >= ScenarioFocus
    /\ w.autoSwitchTimeouts = <<>>

\* Scenario C: start() (1), two seconds (2, 3), pause() (4), three seconds
\* (5, 6, 7), resume() (8), three seconds (9, 10, 11); 0 when off the script
NextScenarioC(op) ==
    CASE op = "start" /\ FreshC(World) -> 1
      [] op = "second" /\ scenarioC \in {1, 2, 4, 5, 6, 8, 9, 10} -> scenarioC + 1
      [] op = "pause" /\ scenarioC = 3 -> 4
      [] op = "resume" /\ scenarioC = 7 -> 8
      [] OTHER -> 0

\* the states of the state-machine summary: Idle, Running, Paused, and the
\* idle state a completion leaves (timeRemaining = 0)
Phase(w) ==
    IF w.timerState.isPaused THEN "paused"
    ELSE IF w.timerState.isRunning THEN "running"
    ELSE IF w.timerState.timeRemaining = 0 THEN "completed"
    ELSE "idle"

\* the countdown is partly elapsed
MidCountdown(w) ==
    /\ 0 < w.timerState.timeRemaining
    /\ w.timerState.timeRemaining < w.timerState.totalTime

\* pause() on a counting timer records the countdown; the record survives the
\* resume() that follows at once and nothing else
NextPauseMark(op) ==
    CASE op = "pause" /\ timerState.isRunning /\ ~timerState.isPaused ->
            [set |-> TRUE, timeRemaining |-> timerState.timeRemaining,
             totalTime |-> timerState.totalTime,
             currentMode |-> timerState.currentMode, cycles |-> timerState.cycles]
      [] op = "resume" /\ lastOp.op = "pause" /\ pauseMark.set -> pauseMark
      [] OTHER -> NoMark

\* a completion that schedules a delayed action records the mode it completed
NextTimeoutModes(op, w2) ==
    CASE op = "second" ->
            timeoutModes \o
                [i \in 1..(Len(w2.autoSwitchTimeouts) - Len(autoSwitchTimeouts))
                    |-> timerState.currentMode]
      [] op = "autoSwitch" /\ timeoutModes # <<>> -> Tail(timeoutModes)
      [] OTHER -> timeoutModes

\* a step: the engine becomes w2, and the observers record the step
Step(op, arg, patch, w2) ==
    /\ timerState' = w2.timerState
    /\ config' = w2.config
    /\ timerInterval' = w2.timerInterval
    /\ orphanIntervals' = w2.orphanIntervals
    /\ autoSwitchTimeouts' = w2.autoSwitchTimeouts
    /\ storage' = w2.storage
    /\ storageAvailable' = w2.storageAvailable
    /\ lastOp' = [op |-> op, arg |-> arg, from |-> Phase(World),
                  rep |-> lastOp.op = op /\ lastOp.arg = arg,
                  mid |-> MidCountdown(World), patch |-> patch,
                  raised |-> w2.raised, dispatched |-> w2.dispatched]
    /\ tickRun' = IF op = "second"
                  THEN [tickRun EXCEPT !.n = @ + LiveIntervals(World)]
                  ELSE [base |-> w2.timerState.timeRemaining, n |-> 0]
    /\ scenarioA' = NextScenarioA(op)
    /\ scenarioC' = NextScenarioC(op)
    /\ pauseMark' = NextPauseMark(op)
    /\ timeoutModes' = NextTimeoutModes(op, w2)
    /\ notification' = w2.notification
    /\ currentTask' = w2.currentTask
    /\ snapshot' = snapshot
    /\ taskManager' = w2.taskManager
    /\ router' = w2.router
    /\ refilled' = refilled

\* a step of an operation other than updateConfig
Do(op, arg, w2) == Step(op, arg, NoPatch, w2)

\* the start button, the Space key, or a call of the public startTimer
Start == Do("start", "", startTimer(World))

\* the pause button, the Space key, a hidden page, or a call of pauseTimer
Pause == Do("pause", "", pauseTimer(World))

\* a call of the public resumeTimer
Resume == Do("resume", "", resumeTimer(World))

\* the reset button or a call of resetTimer
Reset == Do("reset", "", resetTimer(World))

\* a mode button or a call of switchMode
SwitchMode == \E mode \in Modes : Do("switchMode", mode, switchMode(World, mode))

\* a call of updateConfig with one or both durations or the autoSwitch flag
UpdateConfig ==
    \/ \E f \in FocusTimes :
          Step("updateConfig", "", [focusTime |-> f], updateConfig(World, [focusTime |-> f]))
    \/ \E b \in BreakTimes :
          Step("updateConfig", "", [breakTime |-> b], updateConfig(World, [breakTime |-> b]))
    \/ \E a \in BOOLEAN :
          Step("updateConfig", "", [autoSwitch |-> a], updateConfig(World, [autoSwitch |-> a]))

\* no delayed action is due, and the second does not take cyclesCompleted
\* beyond MaxCycles
CanElapse(w) ==
    /\ \A i \in 1..Len(w.autoSwitchTimeouts) : w.autoSwitchTimeouts[i] < AutoSwitchDelay
    /\ ~(/\ LiveIntervals(w) > 0
         /\ w.timerState.timeRemaining = 0
         /\ w.timerState.currentMode = "focus"
         /\ w.timerState.cycles >= MaxCycles)

\* One second passes: the callback of every live interval runs.  A delayed
\* action that is due fires first, and cyclesCompleted stays within MaxCycles.
Second ==
    /\ CanElapse(World)
    /\ Do("second", "", secondElapses(World))

\* the oldest delayed auto-switch action fires
AutoSwitchFires ==
    /\ autoSwitchTimeouts # <<>>
    /\ Do("autoSwitch", IF timeoutModes = <<>> THEN "" ELSE Head(timeoutModes),
          autoSwitchCallback([World EXCEPT !.autoSwitchTimeouts = Tail(@)]))

Next ==
    \/ Start
    \/ Pause
    \/ Resume
    \/ Reset
    \/ SwitchMode
    \/ UpdateConfig
    \/ Second
    \/ AutoSwitchFires

Spec == Init /\ [][Next]_vars

----
\* Start-up: the script has been evaluated and init() runs once.

\* a config object is well formed when its durations are positive
WellFormedConfig(c) == c.focusTime > 0 /\ c.breakTime > 0

\* stored values that JSON.parse accepts and that are not a well-formed
\* config: a number, and objects with a duration of 0
MalformedConfigEntries ==
    {[kind |-> "other", obj |-> DefaultConfig]}
        \cup {[kind |-> "object", obj |-> [c EXCEPT !.focusTime = 0]] : c \in Configs}

\* what the key focuslite_timer_config may hold when the page is loaded:
\* nothing, an item JSON.parse rejects, or a configuration saved earlier
StoredConfigEntries ==
    {[kind |-> "absent", obj |-> DefaultConfig], [kind |-> "corrupt", obj |-> DefaultConfig]}
        \cup {[kind |-> "object", obj |-> c] : c \in Configs}
        \cup MalformedConfigEntries

\* the state of the script once it is evaluated, for any stored data
BootInit ==
    \E storedCycles \in StoredCycleEntries, storedConfig \in StoredConfigEntries,
       available \in BOOLEAN :
        LET w == [ModuleState(storedCycles, available) EXCEPT !.storage.config = storedConfig]
        IN /\ timerState = w.timerState
           /\ config = w.config
           /\ timerInterval = w.timerInterval
           /\ orphanIntervals = w.orphanIntervals
           /\ autoSwitchTimeouts = w.autoSwitchTimeouts
           /\ storage = w.storage
           /\ storageAvailable = w.storageAvailable
           /\ lastOp = [op |-> "load", arg |-> "", from |-> "idle", rep |-> FALSE,
                        mid |-> FALSE, patch |-> NoPatch, raised |-> FALSE,
                        dispatched |-> <<>>]
           /\ tickRun = [base |-> w.timerState.timeRemaining, n |-> 0]
           /\ scenarioA = ScenarioAOff
           /\ scenarioC = 0
           /\ pauseMark = NoMark
           /\ timeoutModes = <<>>
           /\ notification = w.notification
           /\ currentTask = w.currentTask
           /\ snapshot = NoSnapshot
           /\ taskManager = w.taskManager
           /\ router = w.router
           /\ refilled = TRUE

\* FocusLiteApp.initializePomodoroTimer calls PomodoroTimer.init once
Boot ==
    /\ lastOp.op = "load"
    /\ Do("init", "", init(World))

SpecBoot == BootInit /\ [][Boot]_vars

----
\* The engine inside the page.  The specifications below add what the rest of
\* the page does to the engine's operations; they record only the name of the
\* operation of a step, not the scenarios and the marks of Spec.

ConfigPatches ==
    {[focusTime |-> f] : f \in FocusTimes} \cup {[breakTime |-> b] : b \in BreakTimes}
        \cup {[autoSwitch |-> a] : a \in BOOLEAN}

\* every operation of Next that can run in w, with the engine it leaves
EngineOperations(w) ==
    {[op |-> "start", arg |-> "", w |-> startTimer(w)],
     [op |-> "pause", arg |-> "", w |-> pauseTimer(w)],
     [op |-> "resume", arg |-> "", w |-> resumeTimer(w)],
     [op |-> "reset", arg |-> "", w |-> resetTimer(w)]}
        \cup {[op |-> "switchMode", arg |-> mode, w |-> switchMode(w, mode)] : mode \in Modes}
        \cup {[op |-> "updateConfig", arg |-> "", w |-> updateConfig(w, patch)] :
                 patch \in ConfigPatches}
        \cup (IF CanElapse(w)
              THEN {[op |-> "second", arg |-> "", w |-> secondElapses(w)]} ELSE {})
        \cup (IF w.autoSwitchTimeouts # <<>>
              THEN {[op |-> "autoSwitch", arg |-> "",
                     w |-> autoSwitchCallback([w EXCEPT !.autoSwitchTimeouts = Tail(@)])]}
              ELSE {})

\* a step that leaves the modules as w2 and records the name of its operation
EngineCore(op, arg, w2) ==
    /\ timerState' = w2.timerState
    /\ config' = w2.config
    /\ timerInterval' = w2.timerInterval
    /\ orphanIntervals' = w2.orphanIntervals
    /\ autoSwitchTimeouts' = w2.autoSwitchTimeouts
    /\ storage' = w2.storage
    /\ storageAvailable' = w2.storageAvailable
    /\ notification' = w2.notification
    /\ currentTask' = w2.currentTask
    /\ lastOp' = [op |-> op, arg |-> arg, from |-> "idle", rep |-> FALSE, mid |-> FALSE,
                  patch |-> NoPatch, raised |-> w2.raised, dispatched |-> w2.dispatched]
    /\ taskManager' = w2.taskManager
    /\ router' = w2.router
    /\ UNCHANGED <<tickRun, scenarioA, scenarioC, pauseMark, timeoutModes>>

Engine(op, arg, w2) == EngineCore(op, arg, w2) /\ refilled' = refilled

\* one of the engine's operations runs
Operate ==
    /\ \E o \in EngineOperations(World) : Engine(o.op, o.arg, o.w)
    /\ snapshot' = snapshot

\* one of the engine's operations runs, its name not recorded
SomeOperation == \E o \in EngineOperations(World) : Engine("operation", "", o.w)

----
\* The timer page: the keyboard, callers that read the state and drop it, and
\* a browser that may fail to deliver the notifications of a completion.

InitPage == \E browser \in NotificationOutcomes : InitIn(browser)

\* FocusLiteApp.handleKeyboardShortcuts: the Space key on the timer page
handleSpaceKey(w) ==
    LET state == getTimerState(w).val
    IN IF state.isRunning THEN pauseTimer(w) ELSE startTimer(w)

SpaceKey ==
    /\ Engine("space", "", handleSpaceKey(World))
    /\ snapshot' = snapshot

\* a caller reads the state and keeps nothing
GetStateCall ==
    /\ Engine("getState", "", World)
    /\ snapshot' = snapshot

NextPage ==
    \/ Operate
    \/ SpaceKey
    \/ GetStateCall

SpecPage == InitPage /\ [][NextPage]_vars

----
\* The task list tells the timer which task is the current one.

TaskTexts == {"write report"}

\* the events the timer may receive: a task, or none
TaskEvents == {[detail |-> [task |-> [text |-> t]]] : t \in TaskTexts \cup {""}}

\* a currentTaskChanged event is delivered to the timer
CurrentTaskChanged ==
    /\ \E event \in TaskEvents :
          Engine("currentTaskChanged", event.detail.task.text,
                 handleCurrentTaskChanged(World, event))
    /\ snapshot' = snapshot

NextTask ==
    \/ SomeOperation /\ snapshot' = snapshot
    \/ CurrentTaskChanged

SpecTask == Init /\ [][NextTask]_vars

----
\* Hands off: start() once, then only the browser's timers act.

InitAuto == Init /\ config.autoSwitch

StartOnce == lastOp.op = "init" /\ Start

NextAuto ==
    \/ StartOnce
    \/ Second
    \/ AutoSwitchFires

\* the browser runs every interval and timeout callback that is due
SpecAuto ==
    /\ InitAuto /\ [][NextAuto]_vars
    /\ WF_vars(Second) /\ WF_vars(AutoSwitchFires)

----
\* Counting the countdowns behind the cycles.

\* an operation runs; the observer notes whether timeRemaining has been at a
\* positive totalTime since cyclesCompleted last changed
OperateCounted ==
    /\ \E o \in EngineOperations(World) :
          /\ EngineCore(o.op, o.arg, o.w)
          /\ refilled' =
                IF o.w.timerState.cycles # timerState.cycles THEN FALSE
                ELSE \/ refilled
                     \/ /\ o.w.timerState.timeRemaining = o.w.timerState.totalTime
                        /\ o.w.timerState.totalTime > 0
    /\ snapshot' = snapshot

SpecCount == Init /\ [][OperateCounted]_vars

----
\* Storage of the task list, and Storage.clearAllData.
\* The entry under focuslite_tasks is [kind, items]: kind "array" holds the
\* list JSON.parse returns, "other" a JSON value that is not an array.

\* JSON.stringify followed by JSON.parse of a task list: each task comes back
\* with its five own properties (strings, a boolean, null)
JSONTask(t) ==
    [id |-> t.id, text |-> t.text, completed |-> t.completed,
     createdAt |-> t.createdAt, completedAt |-> t.completedAt]

JSONTasks(tasks) == [i \in 1..Len(tasks) |-> JSONTask(tasks[i])]

\* Storage.saveTasks
saveTasks(w, tasks) ==
    saveData(w, "tasks", [kind |-> "array", items |-> JSONTasks(tasks)])

\* Storage.loadTasks
loadTasks(w) == loadData(w, "tasks", [kind |-> "array", items |-> <<>>])

\* Storage.clearAllData: removeItem for each of the three keys, inside try/catch
Storage_clearAllData(w) ==
    IF w.storageAvailable
    THEN [w EXCEPT !.storage = [cycles |-> AbsentEntry, config |-> AbsentEntry,
                                tasks |-> AbsentTasks]]
    ELSE w

----
\* TaskManager.

\* TaskManager.dispatchCustomEvent: document.dispatchEvent runs the listeners
\* before it returns; the timer listens to currentTaskChanged
dispatchCustomEvent(w, eventName, detail) ==
    LET event == [name |-> eventName, detail |-> detail]
        w1 == [w EXCEPT !.dispatched = Append(@, event)]
    IN IF eventName = "currentTaskChanged"
       THEN handleCurrentTaskChanged(w1, event)
       ELSE w1

\* tasks.findIndex(t => t.id === taskId): the first position, 0 when none
findIndex(tasks, taskId) ==
    IF \E i \in 1..Len(tasks) : tasks[i].id = taskId
    THEN CHOOSE i \in 1..Len(tasks) :
            /\ tasks[i].id = taskId
            /\ \A j \in 1..(i - 1) : tasks[j].id # taskId
    ELSE 0

\* TaskManager.saveTasksToStorage
saveTasksToStorage(w) == saveTasks(w, w.taskManager.tasks)

\* TaskManager.loadTasksFromStorage: only an array replaces the list
loadTasksFromStorage(w) ==
    LET savedTasks == loadTasks(w)
    IN IF savedTasks.kind = "array"
       THEN [w EXCEPT !.taskManager.tasks = savedTasks.items]
       ELSE w

\* TaskManager.init
TaskManager_init(w) == loadTasksFromStorage(w)

\* TaskManager.generateTaskId: a fresh id (time and a random suffix)
generateTaskId(w) == w.taskManager.issued + 1

\* TaskManager.addTask
addTask(w, text) ==
    LET task == [id |-> generateTaskId(w), text |-> text, completed |-> FALSE,
                 createdAt |-> "date", completedAt |-> "null"]
        w1 == [w EXCEPT !.taskManager.issued = @ + 1,
                        !.taskManager.tasks = Append(@, task)]
    IN dispatchCustomEvent(saveTasksToStorage(w1), "taskAdded", [task |-> task])

toggleTask_noSave(w, taskId) ==
    LET i == findIndex(w.taskManager.tasks, taskId)
    IN IF i = 0 THEN w
       ELSE LET done == ~w.taskManager.tasks[i].completed
                w1 == [w EXCEPT !.taskManager.tasks[i].completed = done,
                                !.taskManager.tasks[i].completedAt =
                                    IF done THEN "date" ELSE "null"]
            IN dispatchCustomEvent(w1, "taskToggled", [task |-> w1.taskManager.tasks[i]])

\* TaskManager.toggleTask
toggleTask(w, taskId) ==
    LET i == findIndex(w.taskManager.tasks, taskId)
    IN IF i = 0 THEN w
       ELSE LET done == ~w.taskManager.tasks[i].completed
                w1 == [w EXCEPT !.taskManager.tasks[i].completed = done,
                                !.taskManager.tasks[i].completedAt =
                                    IF done THEN "date" ELSE "null"]
            IN dispatchCustomEvent(saveTasksToStorage(w1), "taskToggled",
                                   [task |-> w1.taskManager.tasks[i]])

\* TaskManager.deleteTask
deleteTask(w, taskId) ==
    LET tasks == w.taskManager.tasks
        taskIndex == findIndex(tasks, taskId)
    IN IF taskIndex = 0 THEN w
       ELSE LET w1 == [w EXCEPT !.taskManager.tasks =
                                    SubSeq(tasks, 1, taskIndex - 1)
                                        \o SubSeq(tasks, taskIndex + 1, Len(tasks)),
                                !.taskManager.currentTaskId =
                                    IF @ = taskId THEN 0 ELSE @]
            IN dispatchCustomEvent(saveTasksToStorage(w1), "taskDeleted",
                                   [task |-> tasks[taskIndex]])

\* TaskManager.setCurrentTask: the id is stored first; the event follows only
\* when a task has that id
setCurrentTask(w, taskId) ==
    LET w1 == [w EXCEPT !.taskManager.currentTaskId = taskId]
        i == findIndex(w.taskManager.tasks, taskId)
    IN IF i # 0
       THEN dispatchCustomEvent(w1, "currentTaskChanged", [task |-> w.taskManager.tasks[i]])
       ELSE w1

\* TaskManager.clearAllTasks
clearAllTasks(w) ==
    LET w1 == [w EXCEPT !.taskManager.tasks = <<>>,
                        !.taskManager.currentTaskId = 0]
    IN dispatchCustomEvent(saveTasksToStorage(w1), "allTasksCleared", <<>>)

\* TaskManager.completeAllTasks
completeAllTasks(w) ==
    LET w1 == [w EXCEPT !.taskManager.tasks =
                   [i \in 1..Len(@) |->
                       IF @[i].completed THEN @[i]
                       ELSE [@[i] EXCEPT !.completed = TRUE, !.completedAt = "date"]]]
    IN dispatchCustomEvent(saveTasksToStorage(w1), "allTasksCompleted", <<>>)

----
\* Router.

\* the pages FocusLiteApp.initializeRouter registers
PageNames == {"tasks", "timer"}

\* Router.navigateTo: currentPage is assigned before the event is built
navigateTo(w, pageName) ==
    IF pageName \notin PageNames THEN w
    ELSE LET w1 == [w EXCEPT !.router.currentPage = pageName]
         IN [w1 EXCEPT !.dispatched =
                Append(@, [name |-> "pageChanged",
                           detail |-> [previousPage |-> w1.router.currentPage,
                                       currentPage |-> pageName]])]

----
\* FocusLiteApp.clearAllData: after the user's answer to confirm()
FocusLiteApp_clearAllData(w, confirmed) ==
    IF confirmed THEN resetTimer(clearAllTasks(Storage_clearAllData(w))) ELSE w

\* the user presses "clear all data" and answers the confirm() dialog
ClearAllData ==
    /\ \E confirmed \in BOOLEAN :
          Engine("clearAllData", IF confirmed THEN "ok" ELSE "cancel",
                 FocusLiteApp_clearAllData(World, confirmed))
    /\ snapshot' = snapshot

\* storage works and focuslite_cycles is absent or holds a number
InitClear == Init /\ storageAvailable /\ storage.cycles.kind \in {"absent", "number"}

NextClear ==
    \/ Operate
    \/ ClearAllData

SpecClear == InitClear /\ [][NextClear]_vars

----
\* The task list and the router inside the page; the timer is left alone.

\* a task saved by an earlier visit
StoredTask ==
    [id |-> MaxTaskIds + 1, text |-> "write report", completed |-> FALSE,
     createdAt |-> "date", completedAt |-> "null"]

\* what the key focuslite_tasks may hold when the page is loaded
StoredTaskEntries ==
    {AbsentTasks, [kind |-> "corrupt", items |-> <<>>], [kind |-> "other", items |-> <<>>],
     [kind |-> "array", items |-> <<>>], [kind |-> "array", items |-> <<StoredTask>>]}

\* the ids a caller may pass: issued ones, the stored one, ones of no task
TaskIds == 1..(MaxTaskIds + 1)

\* the page once w is the state of its modules
LoadedAs(w) ==
    /\ timerState = w.timerState
    /\ config = w.config
    /\ timerInterval = w.timerInterval
    /\ orphanIntervals = w.orphanIntervals
    /\ autoSwitchTimeouts = w.autoSwitchTimeouts
    /\ storage = w.storage
    /\ storageAvailable = w.storageAvailable
    /\ lastOp = [op |-> "init", arg |-> "", from |-> "idle", rep |-> FALSE,
                 mid |-> FALSE, patch |-> NoPatch, raised |-> FALSE,
                 dispatched |-> <<>>]
    /\ tickRun = [base |-> w.timerState.timeRemaining, n |-> 0]
    /\ scenarioA = ScenarioAOff
    /\ scenarioC = 0
    /\ pauseMark = NoMark
    /\ timeoutModes = <<>>
    /\ notification = w.notification
    /\ currentTask = w.currentTask
    /\ snapshot = NoSnapshot
    /\ taskManager = w.taskManager
    /\ router = w.router
    /\ refilled = TRUE

\* FocusLiteApp.initializeModules: TaskManager.init, then PomodoroTimer.init
InitApp ==
    \E storedTasks \in StoredTaskEntries, available \in BOOLEAN :
        LoadedAs(init(TaskManager_init([ModuleState(AbsentEntry, available)
                                           EXCEPT !.storage.tasks = storedTasks])))

AddTask ==
    /\ taskManager.issued < MaxTaskIds
    /\ Len(taskManager.tasks) < MaxTasks
    /\ \E text \in TaskTexts : Engine("addTask", "", addTask(World, text))
    /\ snapshot' = snapshot

ToggleTask ==
    /\ \E taskId \in TaskIds : Engine("toggleTask", "", toggleTask(World, taskId))
    /\ snapshot' = snapshot

DeleteTask ==
    /\ \E taskId \in TaskIds : Engine("deleteTask", "", deleteTask(World, taskId))
    /\ snapshot' = snapshot

SetCurrentTask ==
    /\ \E taskId \in TaskIds : Engine("setCurrentTask", "", setCurrentTask(World, taskId))
    /\ snapshot' = snapshot

ClearAllTasks ==
    /\ Engine("clearAllTasks", "", clearAllTasks(World))
    /\ snapshot' = snapshot

CompleteAllTasks ==
    /\ Engine("completeAllTasks", "", completeAllTasks(World))
    /\ snapshot' = snapshot

\* the page is loaded again: fresh modules over the same storage (ids stay
\* unique across visits)
ReloadPage ==
    /\ Engine("reload", "",
              init(TaskManager_init(
                  [ModuleState(storage.cycles, storageAvailable)
                      EXCEPT !.storage = storage,
                             !.taskManager.issued = taskManager.issued])))
    /\ snapshot' = snapshot

\* a navigation button, the history, or a caller with any page name
NavigateTo ==
    /\ \E pageName \in PageNames \cup {"settings"} :
          Engine("navigateTo", pageName, navigateTo(World, pageName))
    /\ snapshot' = snapshot

NextApp ==
    \/ AddTask
    \/ ToggleTask
    \/ DeleteTask
    \/ SetCurrentTask
    \/ ClearAllTasks
    \/ CompleteAllTasks
    \/ ReloadPage
    \/ NavigateTo

SpecApp == InitApp /\ [][NextApp]_vars

----
\* A caller of getTimerState().

\* what the caller reads from the object s it holds
Deref(s, w) == IF s.alias THEN w.timerState ELSE s.val

\* what a caller may write to the object it holds
CallerWrites(t) ==
    {[t EXCEPT !.isRunning = ~@], [t EXCEPT !.timeRemaining = 0],
     [t EXCEPT !.currentMode = IF @ = "focus" THEN "break" ELSE "focus"]}

\* a caller (the Space key handler, the status report of the page) calls getTimerState()
GetState ==
    /\ ~snapshot.taken
    /\ snapshot' = getTimerState(World)
    /\ Engine("getTimerState", "", World)

\* the caller assigns to a field of the object
CallerMutates ==
    /\ snapshot.taken /\ snapshot.age < SnapshotLife
    /\ \E t \in CallerWrites(Deref(snapshot, World)) :
          IF snapshot.alias
          THEN /\ Engine("callerWrites", "", [World EXCEPT !.timerState = t])
               /\ snapshot' = [snapshot EXCEPT !.age = @ + 1]
          ELSE /\ Engine("callerWrites", "", World)
               /\ snapshot' = [snapshot EXCEPT !.val = t, !.age = @ + 1]

\* an operation of the engine runs while the caller may hold an object
OperateHeld ==
    /\ snapshot.taken => snapshot.age < SnapshotLife
    /\ SomeOperation
    /\ snapshot' = IF snapshot.taken THEN [snapshot EXCEPT !.age = @ + 1] ELSE snapshot

\* the caller drops the object
Release ==
    /\ snapshot.taken
    /\ snapshot' = NoSnapshot
    /\ Engine("release", "", World)

NextSnapshot ==
    \/ OperateHeld
    \/ GetState
    \/ CallerMutates
    \/ Release

SpecSnapshot == Init /\ [][NextSnapshot]_vars

----
\* Types.

TypeOK ==
    /\ timerState.isRunning \in BOOLEAN
    /\ timerState.isPaused \in BOOLEAN
    /\ timerState.currentMode \in Modes
    /\ timerState.timeRemaining \in Int
    /\ timerState.cycles \in Nat
    /\ timerInterval \in {"null", "active", "cleared"}
    /\ orphanIntervals \in Nat

----
\* Claims.

\* the step is a tick that finds timeRemaining at 0 and runs handleTimerComplete
Completes ==
    /\ lastOp'.op = "second"
    /\ LiveIntervals(World) > 0
    /\ timerState.timeRemaining = 0

\* the parts of the engine that start, pause and resume leave alone
Untouched(w) ==
    <<w.timerState.currentMode, w.timerState.timeRemaining, w.timerState.totalTime,
      w.timerState.cycles, w.config, w.autoSwitchTimeouts, w.storage>>

\* C1: resume() called while paused clears paused and re-establishes the
\* recurring tick schedule as start() does: afterwards the timer is running,
\* not paused, and exactly one tick interval is live.
C1_ResumeRestartsTicks ==
    (lastOp.op = "resume" /\ lastOp.from = "paused") =>
        /\ ~timerState.isPaused
        /\ timerState.isRunning
        /\ LiveIntervals(World) = 1

\* C2: Scenario C: after start(), 2 ticks, pause(), 3 seconds, resume() and
\* 3 more seconds, timeRemaining = totalTime - 5.
C2_ScenarioC ==
    scenarioC = 11 => timerState.timeRemaining = timerState.totalTime - 5

\* C3: Scenario A: with {focusSeconds:5, breakSeconds:2, autoSwitch:false},
\* start() and exactly 5 ticks leave timeRemaining = 0, running = false,
\* cyclesCompleted one more than before, and the mode still Focus.
C3_ScenarioA ==
    (scenarioA.on /\ ~scenarioA.fired /\ scenarioA.ticks = ScenarioFocus
        /\ ~config.autoSwitch) =>
        /\ timerState.timeRemaining = 0
        /\ ~timerState.isRunning
        /\ timerState.cycles = scenarioA.base + 1
        /\ timerState.currentMode = "focus"

\* C4: Scenario B: with {focusSeconds:5, breakSeconds:2, autoSwitch:true} and
\* no user operation after the Focus completion, once the delayed action has
\* fired the mode is Break, timeRemaining = breakSeconds, the timer is running
\* and not paused, and one tick interval is live.
C4_ScenarioB ==
    (scenarioA.on /\ scenarioA.fired) =>
        /\ timerState.currentMode = "break"
        /\ timerState.timeRemaining = ScenarioBreak
        /\ timerState.isRunning
        /\ ~timerState.isPaused
        /\ LiveIntervals(World) = 1

C4_Witness ==
    /\ scenarioA.on /\ scenarioA.fired
    /\ config.autoSwitch
    /\ timerState.cycles = scenarioA.base + 1

C6_TicksDecrement ==
    /\ timerState.timeRemaining = Max(0, tickRun.base - tickRun.n)
    /\ timerState.timeRemaining >= 0

C6_Witness ==
    /\ tickRun.base = ScenarioFocus
    /\ tickRun.n = tickRun.base + 1
    /\ timerState.timeRemaining = 0

\* C7 as stated: after switchMode(m), for either m, the mode is m,
\* timeRemaining = totalTime = the configured duration of m, and the timer is
\* neither running nor paused.
C7_SwitchModeAlways ==
    lastOp.op = "switchMode" =>
        /\ timerState.currentMode = lastOp.arg
        /\ timerState.timeRemaining = timerState.totalTime
        /\ timerState.totalTime = (IF lastOp.arg = "focus" THEN config.focusTime
                                                          ELSE config.breakTime)
        /\ ~timerState.isRunning
        /\ ~timerState.isPaused

\* C7 amended: after switchMode(m) with m other than the current mode, the mode
\* is m, timeRemaining = totalTime = the configured duration of m, and the
\* timer is neither running nor paused; switchMode(m) with m the current mode
\* changes nothing.
C7_SwitchMode ==
    [][lastOp'.op = "switchMode" =>
         IF lastOp'.arg # timerState.currentMode
         THEN /\ timerState'.currentMode = lastOp'.arg
              /\ timerState'.timeRemaining = timerState'.totalTime
              /\ timerState'.totalTime = (IF lastOp'.arg = "focus"
                                          THEN config'.focusTime ELSE config'.breakTime)
              /\ ~timerState'.isRunning
              /\ ~timerState'.isPaused
         ELSE World' = World]_vars

C7_Witness ==
    /\ lastOp.op = "switchMode" /\ lastOp.from = "running"
    /\ timerState.currentMode = "break"
    /\ ~timerState.isRunning
    /\ timerState.timeRemaining = config.breakTime

\* C8: after reset(), from any state, timeRemaining = totalTime, the timer is
\* neither running nor paused, no tick interval is live, and the mode,
\* totalTime and cyclesCompleted are what they were.
C8_Reset ==
    [][lastOp'.op = "reset" =>
         /\ timerState'.timeRemaining = timerState'.totalTime
         /\ ~timerState'.isRunning
         /\ ~timerState'.isPaused
         /\ LiveIntervals(World') = 0
         /\ timerState'.currentMode = timerState.currentMode
         /\ timerState'.totalTime = timerState.totalTime
         /\ timerState'.cycles = timerState.cycles]_vars

C8_Witness ==
    /\ lastOp.op = "reset" /\ lastOp.from = "running"
    /\ timerState.timeRemaining = timerState.totalTime
    /\ timerInterval = "cleared"

\* C9: start() on a running timer (paused or not) changes nothing and creates
\* no tick interval; on a timer that is not running it sets running, clears
\* paused and creates exactly one tick interval.  The timer is running after
\* any start(), so a second start() in a row is the first case.
C9_Start ==
    [][lastOp'.op = "start" =>
         /\ timerState'.isRunning
         /\ IF timerState.isRunning
            THEN World' = World
            ELSE /\ ~timerState'.isPaused
                 /\ LiveIntervals(World') = 1
                 /\ LiveIntervals(World) = 0
                 /\ Untouched(World') = Untouched(World)]_vars

C9_Witness ==
    /\ lastOp.op = "start" /\ lastOp.rep
    /\ timerState.isRunning
    /\ LiveIntervals(World) = 1

\* C10: pause() changes nothing unless the timer is running and not paused;
\* otherwise it sets paused, leaves running set and timeRemaining as it was,
\* and no tick interval stays live; while paused, a second that passes does
\* not change timeRemaining.  A second pause() in a row is the first case.
C10_Pause ==
    [][/\ lastOp'.op = "pause" =>
            IF timerState.isRunning /\ ~timerState.isPaused
            THEN /\ timerState'.isPaused
                 /\ timerState'.isRunning
                 /\ LiveIntervals(World') = 0
                 /\ Untouched(World') = Untouched(World)
            ELSE World' = World
       /\ (timerState.isPaused /\ lastOp'.op = "second") =>
            /\ timerState'.timeRemaining = timerState.timeRemaining
            /\ timerState'.isPaused]_vars

C10_Witness ==
    /\ lastOp.op = "second" /\ lastOp.from = "paused"
    /\ timerState.isPaused /\ timerState.isRunning
    /\ timerState.timeRemaining > 0
    /\ timerState.timeRemaining < timerState.totalTime

\* the configured duration of the current mode
ConfiguredTime(w) ==
    IF w.timerState.currentMode = "focus" THEN w.config.focusTime ELSE w.config.breakTime

OtherMode(mode) == IF mode = "focus" THEN "break" ELSE "focus"

\* C11: pause() on a counting timer immediately followed by resume() leaves
\* timeRemaining, totalTime, the mode and cyclesCompleted as they were before
\* the pause().
C11_PauseResume ==
    (lastOp.op = "resume" /\ pauseMark.set) =>
        /\ timerState.timeRemaining = pauseMark.timeRemaining
        /\ timerState.totalTime = pauseMark.totalTime
        /\ timerState.currentMode = pauseMark.currentMode
        /\ timerState.cycles = pauseMark.cycles

C11_Witness ==
    /\ lastOp.op = "resume" /\ lastOp.from = "paused" /\ pauseMark.set
    /\ pauseMark.timeRemaining < pauseMark.totalTime
    /\ timerState.timeRemaining = pauseMark.timeRemaining
    /\ ~timerState.isPaused

\* C12: Scenario D: switchMode("break") on a running Focus countdown that is
\* partly elapsed yields mode Break, timeRemaining = totalTime = breakTime,
\* running = false, no live tick interval, and the same cyclesCompleted.
C12_ScenarioD ==
    [][(/\ lastOp'.op = "switchMode" /\ lastOp'.arg = "break"
        /\ timerState.currentMode = "focus"
        /\ timerState.isRunning
        /\ MidCountdown(World)) =>
         /\ timerState'.currentMode = "break"
         /\ timerState'.timeRemaining = config'.breakTime
         /\ timerState'.totalTime = config'.breakTime
         /\ ~timerState'.isRunning
         /\ LiveIntervals(World') = 0
         /\ timerState'.cycles = timerState.cycles]_vars

C12_Witness ==
    /\ lastOp.op = "switchMode" /\ lastOp.arg = "break"
    /\ lastOp.from = "running" /\ lastOp.mid
    /\ timerState.currentMode = "break"
    /\ ~timerState.isRunning
    /\ timerInterval = "cleared"

\* C13: in every reachable state 0 <= timeRemaining <= totalTime.
C13_TimeInRange ==
    /\ 0 <= timerState.timeRemaining
    /\ timerState.timeRemaining <= timerState.totalTime

C13_Witness ==
    /\ lastOp.op = "updateConfig" /\ lastOp.from = "completed"
    /\ "focusTime" \in DOMAIN lastOp.patch
    /\ timerState.currentMode = "focus"
    /\ timerState.timeRemaining = timerState.totalTime
    /\ timerState.totalTime = ShortTime

\* C14: in every reachable state at most one tick interval is live.
C14_OneInterval == LiveIntervals(World) <= 1

C14_Witness ==
    /\ lastOp.op = "autoSwitch" /\ lastOp.from = "running"
    /\ LiveIntervals(World) = 1
    /\ timerState.isRunning

\* C15: reset(), switchMode() and start() leave every pending delayed action
\* pending; when a delayed action fires, whatever happened since the
\* completion, it switches the mode and starts: afterwards the mode is the
\* other one, the countdown is full and running, and one tick interval is live.
C15_DelayedActionStays ==
    [][/\ lastOp'.op \in {"reset", "switchMode", "start"} =>
            autoSwitchTimeouts' = autoSwitchTimeouts
       /\ lastOp'.op = "autoSwitch" =>
            /\ Len(autoSwitchTimeouts') = Len(autoSwitchTimeouts) - 1
            /\ timerState'.currentMode = OtherMode(timerState.currentMode)
            /\ timerState'.timeRemaining = ConfiguredTime(World')
            /\ timerState'.isRunning
            /\ ~timerState'.isPaused
            /\ LiveIntervals(World') = 1]_vars

C15_Witness ==
    /\ lastOp.op = "autoSwitch" /\ lastOp.from = "idle"
    /\ timerState.isRunning
    /\ LiveIntervals(World) = 1

\* C16: when a delayed action fires, the mode afterwards is the opposite of
\* the mode of the countdown whose completion scheduled it, the timer is
\* running and timeRemaining is that mode's configured duration.
C16_SwitchesFromCompletedMode ==
    lastOp.op = "autoSwitch" =>
        /\ timerState.currentMode = OtherMode(lastOp.arg)
        /\ timerState.isRunning
        /\ timerState.timeRemaining = ConfiguredTime(World)

\* C17 as stated: updateConfig(patch) merges the patch into the config and
\* leaves the merged config in storage; if the timer is not running totalTime
\* and timeRemaining become the configured duration of the current mode; if it
\* is running, totalTime, timeRemaining, mode, running and paused are unchanged.
C17_UpdateConfigPersists ==
    [][lastOp'.op = "updateConfig" =>
         /\ \A k \in ConfigKeys :
              config'[k] = IF k \in DOMAIN lastOp'.patch THEN lastOp'.patch[k] ELSE config[k]
         /\ storage'.config = [kind |-> "object", obj |-> config']
         /\ IF ~timerState.isRunning
            THEN /\ timerState'.totalTime = ConfiguredTime(World')
                 /\ timerState'.timeRemaining = ConfiguredTime(World')
            ELSE /\ timerState'.totalTime = timerState.totalTime
                 /\ timerState'.timeRemaining = timerState.timeRemaining
         /\ timerState'.currentMode = timerState.currentMode
         /\ timerState'.isRunning = timerState.isRunning
         /\ timerState'.isPaused = timerState.isPaused]_vars

\* C17 amended: as stated, except that the merged config is in storage
\* afterwards when storage accepts the write, and the stored config is
\* unchanged when it does not.
C17_UpdateConfig ==
    [][lastOp'.op = "updateConfig" =>
         /\ \A k \in ConfigKeys :
              config'[k] = IF k \in DOMAIN lastOp'.patch THEN lastOp'.patch[k] ELSE config[k]
         /\ storage'.config = IF storageAvailable
                              THEN [kind |-> "object", obj |-> config']
                              ELSE storage.config
         /\ IF ~timerState.isRunning
            THEN /\ timerState'.totalTime = ConfiguredTime(World')
                 /\ timerState'.timeRemaining = ConfiguredTime(World')
            ELSE /\ timerState'.totalTime = timerState.totalTime
                 /\ timerState'.timeRemaining = timerState.timeRemaining
         /\ timerState'.currentMode = timerState.currentMode
         /\ timerState'.isRunning = timerState.isRunning
         /\ timerState'.isPaused = timerState.isPaused]_vars

C17_Witness ==
    /\ lastOp.op = "updateConfig" /\ lastOp.from = "running" /\ lastOp.mid
    /\ "focusTime" \in DOMAIN lastOp.patch
    /\ timerState.currentMode = "focus"
    /\ config.focusTime # timerState.totalTime
    /\ storageAvailable
    /\ storage.config.kind = "object"
    /\ storage.config.obj = config

\* the cycle count and the focus duration that init() reads from storage
LoadedCycles == IF storage.cycles.kind = "number" THEN storage.cycles.n ELSE 0

LoadedFocusTime ==
    IF storage.config.kind = "object" THEN storage.config.obj.focusTime
    ELSE DefaultFocusTime

\* C18: right after init(), for every stored config and cycle count, the mode
\* is Focus, timeRemaining = totalTime = the focus duration of the loaded
\* config, the timer is neither running nor paused, and cyclesCompleted is the
\* loaded count.
C18_AfterInit ==
    lastOp.op = "init" =>
        /\ timerState.currentMode = "focus"
        /\ config.focusTime = LoadedFocusTime
        /\ timerState.timeRemaining = config.focusTime
        /\ timerState.totalTime = config.focusTime
        /\ ~timerState.isRunning
        /\ ~timerState.isPaused
        /\ timerState.cycles = LoadedCycles

\* C19: cyclesCompleted is never negative and changes only at a completion in
\* Focus mode, by exactly +1.
C19_CyclesOnlyGrow ==
    [][/\ timerState.cycles >= 0
       /\ timerState'.cycles >= 0
       /\ timerState'.cycles # timerState.cycles =>
            /\ Completes
            /\ timerState.currentMode = "focus"
            /\ timerState'.cycles = timerState.cycles + 1]_vars

C19_Witness ==
    /\ lastOp.op = "second" /\ lastOp.from = "running"
    /\ ~timerState.isRunning
    /\ timerState.currentMode = "break"
    /\ timerState.cycles = MaxStoredCycles
    /\ storage.cycles = NumberEntry(MaxStoredCycles)

\* C20: after reset(), after switchMode() to the other mode and after
\* updateConfig() on a timer that is not running, totalTime is the configured
\* duration of the current mode.
C20_TotalIsConfigured ==
    [][(\/ lastOp'.op = "reset"
        \/ lastOp'.op = "switchMode" /\ lastOp'.arg # timerState.currentMode
        \/ lastOp'.op = "updateConfig" /\ ~timerState.isRunning) =>
         timerState'.totalTime = ConfiguredTime(World')]_vars

\* e is one of the events the step dispatched
Dispatched(e, op) == \E i \in 1..Len(op.dispatched) : op.dispatched[i].name = e

\* C21: every switchMode(target) with target other than the current mode
\* dispatches a modeChanged event, and every completion of a countdown
\* dispatches a cycleCompleted event.
C21_EventsPublished ==
    [][/\ (lastOp'.op = "switchMode" /\ lastOp'.arg # timerState.currentMode) =>
            Dispatched("modeChanged", lastOp')
       /\ Completes => Dispatched("cycleCompleted", lastOp')]_vars

\* what a failed precondition must leave alone: timerState and the scheduled
\* interval and timeouts
Scheduled(w) ==
    <<w.timerState, w.timerInterval, w.orphanIntervals, w.autoSwitchTimeouts>>

PublicOperations ==
    {"start", "pause", "resume", "reset", "switchMode", "updateConfig", "getState"}

\* C22: no public operation raises, in any reachable state; start() while
\* running, pause() while not running or already paused, resume() while not
\* paused, switchMode() to the current mode and getState() leave timerState
\* and the scheduled interval and timeouts unchanged.
C22_SafeInAnyState ==
    [][lastOp'.op \in PublicOperations =>
         /\ ~lastOp'.raised
         /\ (\/ lastOp'.op = "start" /\ timerState.isRunning
             \/ lastOp'.op = "pause" /\ (~timerState.isRunning \/ timerState.isPaused)
             \/ lastOp'.op = "resume" /\ ~timerState.isPaused
             \/ lastOp'.op = "switchMode" /\ lastOp'.arg = timerState.currentMode
             \/ lastOp'.op = "getState") =>
                Scheduled(World') = Scheduled(World)]_vars

C22_Witness ==
    /\ lastOp.op = "pause"
    /\ ~timerState.isRunning /\ ~timerState.isPaused
    /\ timerInterval = "cleared"
    /\ timerState.timeRemaining = 0
    /\ notification = "alertThrows"

\* C23: loading the timer config raises nothing and leaves the default config
\* whenever the stored value is missing, unparsable, or parsable but not a
\* well-formed config object.
C23_MalformedGivesDefault ==
    (/\ lastOp.op = "init"
     /\ ~(storage.config.kind = "object" /\ WellFormedConfig(storage.config.obj))) =>
        /\ ~lastOp.raised
        /\ config = DefaultConfig

\* C24: the cycle counter loaded at start-up is the stored number when the
\* stored value is a number, and 0 when it is missing, unparsable or of
\* another type.
C24_LoadedCycles ==
    lastOp.op = "init" =>
        timerState.cycles =
            IF storage.cycles.kind = "number" THEN storage.cycles.n ELSE 0

C24_Witness ==
    /\ lastOp.op = "init"
    /\ storage.cycles.kind = "other"
    /\ storage.cycles.n # 0
    /\ timerState.cycles = 0

\* C25: when storage rejects writes, a Focus completion and updateConfig still
\* run to their end: nothing is raised, cyclesCompleted is incremented from
\* its in-memory value, the config is merged, the delayed action is scheduled
\* when autoSwitch is on, and the stored values stay as they were.
C25_PersistenceFailureHarmless ==
    [][~storageAvailable =>
         /\ (Completes /\ timerState.currentMode = "focus") =>
               /\ ~lastOp'.raised
               /\ timerState'.cycles = timerState.cycles + 1
               /\ ~timerState'.isRunning
               /\ Len(autoSwitchTimeouts') =
                    Len(autoSwitchTimeouts) + (IF config.autoSwitch THEN 1 ELSE 0)
               /\ storage' = storage
         /\ lastOp'.op = "updateConfig" =>
               /\ ~lastOp'.raised
               /\ config' = ObjectAssign(config, lastOp'.patch)
               /\ storage' = storage]_vars

C25_Witness ==
    /\ ~storageAvailable
    /\ lastOp.op = "second" /\ lastOp.from = "running"
    /\ timerState.cycles >= 2
    /\ storage.cycles = AbsentEntry
    /\ autoSwitchTimeouts # <<>>

\* C26: whatever the browser does with the sound and the Notification, a
\* completion raises nothing and ends with running = false, paused = false,
\* cyclesCompleted incremented in Focus mode and written to storage (when
\* storage accepts the write), and the delayed action scheduled when
\* autoSwitch is on.
C26_NotificationFailureHarmless ==
    [][Completes =>
         /\ ~lastOp'.raised
         /\ ~timerState'.isRunning
         /\ ~timerState'.isPaused
         /\ timerState.currentMode = "focus" =>
               /\ timerState'.cycles = timerState.cycles + 1
               /\ storageAvailable => storage'.cycles = NumberEntry(timerState'.cycles)
         /\ Len(autoSwitchTimeouts') =
              Len(autoSwitchTimeouts) + (IF config.autoSwitch THEN 1 ELSE 0)]_vars

\* C27: a currentTaskChanged event leaves timerState, the scheduled interval
\* and timeouts, the config and the stored values unchanged, in any state.
C27_TaskEventLeavesTimer ==
    [][lastOp'.op = "currentTaskChanged" =>
         /\ Scheduled(World') = Scheduled(World)
         /\ config' = config
         /\ storage' = storage
         /\ ~lastOp'.raised]_vars

C27_Witness ==
    /\ lastOp.op = "currentTaskChanged" /\ lastOp.arg # ""
    /\ currentTask = [shown |-> TRUE, text |-> lastOp.arg]
    /\ timerState.isRunning /\ ~timerState.isPaused
    /\ MidCountdown(World)
    /\ timerInterval = "active"

\* C28: the object getTimerState() returns has the fields of timerState; a
\* write of the caller to the object leaves timerState unchanged, and an
\* operation of the engine leaves the object unchanged.
C28_Snapshot ==
    [][/\ lastOp'.op = "getTimerState" =>
            /\ Deref(snapshot', World') = timerState'
            /\ timerState' = timerState
       /\ lastOp'.op = "callerWrites" =>
            /\ timerState' = timerState
            /\ Deref(snapshot', World') \in CallerWrites(Deref(snapshot, World))
       /\ (lastOp'.op = "operation" /\ snapshot.taken) =>
            Deref(snapshot', World') = Deref(snapshot, World)]_vars

C28_Witness ==
    /\ snapshot.taken /\ snapshot.age = 1
    /\ lastOp.op = "operation"
    /\ Deref(snapshot, World) # timerState
    /\ Deref(snapshot, World).timeRemaining = timerState.timeRemaining + 1

C30_ControlsToggle ==
    [][/\ (lastOp'.op \in {"start", "space"} /\ ~timerState.isRunning) =>
            /\ timerState'.isRunning /\ ~timerState'.isPaused
            /\ LiveIntervals(World') = 1
       /\ (lastOp'.op \in {"pause", "space"}
              /\ timerState.isRunning /\ ~timerState.isPaused) =>
            /\ timerState'.isPaused
            /\ LiveIntervals(World') = 0
            /\ timerState'.timeRemaining = timerState.timeRemaining
       /\ (lastOp'.op \in {"start", "space"} /\ timerState.isPaused) =>
            /\ timerState'.isRunning /\ ~timerState'.isPaused
            /\ LiveIntervals(World') = 1
            /\ timerState'.timeRemaining = timerState.timeRemaining]_vars

\* C33: paused implies running in every reachable state; a step that clears
\* running leaves paused clear, and pause() on a timer that is not running
\* does not set paused.
C33_PausedImpliesRunning ==
    [][/\ timerState.isPaused => timerState.isRunning
       /\ timerState'.isPaused => timerState'.isRunning
       /\ (timerState.isRunning /\ ~timerState'.isRunning) => ~timerState'.isPaused
       /\ (lastOp'.op = "pause" /\ ~timerState.isRunning) => ~timerState'.isPaused]_vars

C33_Witness ==
    /\ lastOp.op = "reset" /\ lastOp.from = "paused"
    /\ ~timerState.isRunning
    /\ ~timerState.isPaused

\* C34: in every reachable state a timer that is running and not paused has
\* a live tick interval.
C34_CountingHasInterval ==
    (timerState.isRunning /\ ~timerState.isPaused) => LiveIntervals(World) >= 1

\* C35: in every reachable state a live tick interval implies running and not
\* paused; a second that passes while the timer is idle or paused decrements
\* nothing, completes nothing and schedules nothing.
C35_IntervalImpliesCounting ==
    [][/\ LiveIntervals(World) > 0 => (timerState.isRunning /\ ~timerState.isPaused)
       /\ LiveIntervals(World') > 0 => (timerState'.isRunning /\ ~timerState'.isPaused)
       /\ (lastOp'.op = "second" /\ (~timerState.isRunning \/ timerState.isPaused)) =>
            /\ timerState' = timerState
            /\ Len(autoSwitchTimeouts') = Len(autoSwitchTimeouts)
            /\ storage' = storage]_vars

C35_Witness ==
    /\ lastOp.op = "second" /\ lastOp.from = "completed" /\ lastOp.rep
    /\ LiveIntervals(World) = 0
    /\ timerState.timeRemaining = 0
    /\ ~timerState.isRunning

\* C36: in every reachable state at most one delayed auto-switch action is
\* pending.
C36_OnePendingSwitch == Len(autoSwitchTimeouts) <= 1

\* C37: cyclesCompleted changes only after timeRemaining has been at a
\* positive totalTime since the previous change (and has come down to 0).
C37_IncrementAfterFullCountdown ==
    [][timerState'.cycles # timerState.cycles =>
         /\ refilled
         /\ timerState.timeRemaining = 0]_vars

\* C38: with storage available and a valid or absent stored count at
\* start-up, the persisted cycle count (0 when absent) equals cyclesCompleted
\* in every reachable state, FocusLiteApp.clearAllData included.
C38_StoredCyclesMatch ==
    (IF storage.cycles.kind = "number" THEN storage.cycles.n ELSE 0) = timerState.cycles

\* the operations of TaskManager that change the task list
TaskOps == {"addTask", "toggleTask", "deleteTask", "clearAllTasks", "completeAllTasks"}

\* C31: after addTask, toggleTask, deleteTask, clearAllTasks or
\* completeAllTasks with storage available, a fresh TaskManager loads exactly
\* the in-memory list, and when the operation acted the stored entry is that list.
C31_StoredTasksMatch ==
    [][(lastOp'.op \in TaskOps /\ storageAvailable')
         => /\ loadTasksFromStorage([World' EXCEPT !.taskManager = TaskManagerState])
                   .taskManager.tasks = taskManager'.tasks
            /\ lastOp'.dispatched # <<>>
                 => storage'.tasks = [kind |-> "array", items |-> taskManager'.tasks]]_vars

\* a task of a full list was toggled and storage holds the new list
C31_Witness ==
    /\ lastOp.op = "toggleTask"
    /\ Dispatched("taskToggled", lastOp)
    /\ storageAvailable
    /\ Len(taskManager.tasks) = MaxTasks
    /\ taskManager.tasks[1].completed
    /\ storage.tasks.items = taskManager.tasks

\* C32: navigateTo(p) for a registered page dispatches pageChanged with
\* previousPage the page current before the call and currentPage p; for an
\* unknown page it changes nothing and dispatches nothing.
C32_PageChangedNamesPrevious ==
    [][lastOp'.op = "navigateTo"
         => IF lastOp'.arg \in PageNames
            THEN /\ router'.currentPage = lastOp'.arg
                 /\ Len(lastOp'.dispatched) = 1
                 /\ lastOp'.dispatched[1].name = "pageChanged"
                 /\ lastOp'.dispatched[1].detail =
                       [previousPage |-> router.currentPage, currentPage |-> lastOp'.arg]
            ELSE /\ router' = router
                 /\ taskManager' = taskManager
                 /\ lastOp'.dispatched = <<>>]_vars

\* C39: currentTaskId is null or the id of a task in the list, and the task
\* shown on the timer page is a task in the list.
C39_CurrentTaskExists ==
    /\ \/ taskManager.currentTaskId = 0
       \/ \E i \in 1..Len(taskManager.tasks) :
             taskManager.tasks[i].id = taskManager.currentTaskId
    /\ currentTask.shown
         => \E i \in 1..Len(taskManager.tasks) :
               taskManager.tasks[i].text = currentTask.text

====
